---- MODULE Spec2Model ----
(***************************************************************************)
(* Transaction receipts of crates/consensus/src/receipt/receipts.rs:       *)
(* Receipt, ReceiptWithBloom (a receipt with its cached log bloom), the    *)
(* field-level RLP codec of RlpReceipt, the serde shape of a Receipt, and  *)
(* the Receipts collection.                                                *)
(*                                                                         *)
(* Values keep their real widths: an address is 20 bytes, a hash 32 bytes, *)
(* a bloom 2048 bits (256 bytes on the wire).  A Bloom value is modelled   *)
(* as the set of its set bits; the wire codec converts it to and from its  *)
(* 256 bytes.  cumulative_gas_used is a natural number; the codec converts *)
(* it to and from big-endian bytes.                                        *)
(***************************************************************************)
EXTENDS Integers, Sequences, FiniteSets

VARIABLES
    r,      \* the bare Receipt at hand
    b,      \* a Bloom supplied from outside
    w,      \* Option<ReceiptWithBloom<Receipt>>, with how it was made
    q,      \* the value returned by the last operation, when it was a query
    op,     \* the operation that ran last
    out,    \* the BufMut the encoder writes to
    n,      \* Option<usize>: what rlp_encoded_fields_length_with_bloom returned
    buf,    \* the byte slice handed to the decoder
    dec,    \* Option<Result<ReceiptWithBloom>>: what the decoder returned
    coll,   \* Receipts<T>.receipt_vec
    arg,    \* the argument of the last operation on the collection
    json,   \* the serde map a Receipt was serialized to / is deserialized from
    parsed  \* Option<Result<Receipt>>: what deserialization returned

vars == <<r, b, w, q, op, out, n, buf, dec, coll, arg, json, parsed>>

----------------------------------------------------------------------------
(* Bounds of the model *)

\* most logs in a receipt
MaxLogs == 2
\* most blocks in a Receipts collection
MaxBlocks == 2
\* most receipts in one block of the collection
MaxBlockTxs == 2

----------------------------------------------------------------------------
(* Generic helpers *)

None == [some |-> FALSE]
Some(x) == [some |-> TRUE, val |-> x]

Ok(v) == [ok |-> TRUE, val |-> v]
Err(e) == [ok |-> FALSE, err |-> e]

\* a decoder's success: the value and the unread rest of the slice
Got(v, rest) == [ok |-> TRUE, val |-> v, rest |-> rest]

Rep(k, v) == [i \in 1..k |-> v]

Drop(s, k) == SubSeq(s, k + 1, Len(s))
Take(s, k) == SubSeq(s, 1, k)

RECURSIVE SeqsUpTo(_, _)
SeqsUpTo(S, k) ==
    IF k = 0 THEN {<<>>}
    ELSE LET shorter == SeqsUpTo(S, k - 1)
         IN  shorter \cup {Append(s, x) : s \in {t \in shorter : Len(t) = k - 1}, x \in S}

RECURSIVE Concat(_)
Concat(ss) == IF ss = <<>> THEN <<>> ELSE Head(ss) \o Concat(Tail(ss))

RECURSIVE SumSeq(_)
SumSeq(s) == IF s = <<>> THEN 0 ELSE Head(s) + SumSeq(Tail(s))

Pow2(k) == 2 ^ k

----------------------------------------------------------------------------
(* The values receipts are built from *)

\* alloy_primitives::Address: 20 bytes
AddressLen == 20
\* alloy_primitives::B256: 32 bytes
HashLen == 32
\* alloy_primitives::Bloom: 256 bytes, 2048 bits, 3 bits per item
BloomSizeBytes == 256
BloomSizeBits == 2048
BloomBitsPerItem == 3
\* u128 is 16 bytes wide
U128Bytes == 16

A0 == Rep(AddressLen, 0)
A1 == Rep(AddressLen, 17)
T0 == Rep(HashLen, 0)
\* the root of test::deser_pre658
T1 == <<40, 77, 53, 191, 83, 184, 46, 244, 128, 171, 66, 8, 82, 115, 37, 71,
        116, 57, 198, 79, 185, 14, 245, 24, 69, 15, 5, 238, 21, 28, 142, 16>>
T2 == Rep(HashLen, 255)

Hashes == {T0, T1, T2}

\* alloy_primitives::Log: address, topics, data
MkLog(a, ts, d) == [address |-> a, topics |-> ts, data |-> d]
LogPlain == MkLog(A0, <<>>, <<>>)
LogOneTopic == MkLog(A1, <<T0>>, <<127>>)
LogTwoTopics == MkLog(A0, <<T1, T2>>, <<128, 1>>)
Logs == {LogPlain, LogOneTopic, LogTwoTopics}

\* Eip658Value: the success flag or the post-state root
Eip658(flag) == [tag |-> "Eip658", status |-> flag]
PostState(root) == [tag |-> "PostState", root |-> root]
Outcomes == {Eip658(TRUE), Eip658(FALSE), PostState(T0), PostState(T1)}

\* cumulative_gas_used values around the edges of the integer encoding
GasValues == {0, 1, 127, 128, 255, 256, 21000, 65535, 65536}

\* struct Receipt<T = Log>
MkReceipt(s, g, ls) == [status |-> s, cumulative_gas_used |-> g, logs |-> ls]

LogSeqs == SeqsUpTo(Logs, MaxLogs)

----------------------------------------------------------------------------
(* The bloom filter *)

\* The first six bytes of keccak256 of each address and topic of the model
\* (keccak256 itself is not computed here; these are its values).
Keccak6(x) ==
    CASE x = A0 -> <<83, 128, 199, 183, 174, 129>>
      [] x = A1 -> <<226, 192, 116, 4, 184, 193>>
      [] x = T0 -> <<41, 13, 236, 217, 84, 139>>
      [] x = T1 -> <<245, 155, 107, 144, 43, 14>>
      [] x = T2 -> <<169, 197, 132, 5, 96, 100>>

ZeroBloom == {}

\* Bloom | Bloom
BitOr(x, y) == x \cup y

\* Mutant of accrue: the item's bits replace the filter instead of joining it.
accrue_overwrite(bloom, input) ==
    LET hash == Keccak6(input)
    IN  {((hash[2 * i - 1] * 256) + hash[2 * i]) % BloomSizeBits : i \in 1..BloomBitsPerItem}

\* Bloom::accrue: three 11-bit indices from the first three byte pairs of the
\* item's hash, each OR-ed into the filter
accrue(bloom, input) ==
    LET hash == Keccak6(input)
    IN  bloom \cup
        {((hash[2 * i - 1] * 256) + hash[2 * i]) % BloomSizeBits : i \in 1..BloomBitsPerItem}

RECURSIVE accrue_topics(_, _)
accrue_topics(bloom, topics) ==
    IF topics = <<>> THEN bloom
    ELSE accrue_topics(accrue(bloom, Head(topics)), Tail(topics))

\* Bloom::accrue_log: the address, then every topic
accrue_log(bloom, log) == accrue_topics(accrue(bloom, log.address), log.topics)

\* impl FromIterator<&Log> for Bloom: fold accrue_log over the logs, from ZERO
RECURSIVE bloom_extend(_, _)
bloom_extend(bloom, logs) ==
    IF logs = <<>> THEN bloom
    ELSE bloom_extend(accrue_log(bloom, Head(logs)), Tail(logs))

\* Receipt::bloom_slow
bloom_slow(rcpt) == bloom_extend(ZeroBloom, rcpt.logs)

\* Blooms handed in from outside: some are the bloom of no receipt of the model
Blooms == {ZeroBloom, {0}, {7, 8, 2047}, bloom_slow(MkReceipt(Eip658(TRUE), 0, <<LogOneTopic>>))}

\* The byte at index i (0-based, from the left) holds bits 8*(255-i) .. 8*(255-i)+7
BloomToBytes(bloom) ==
    [i \in 1..BloomSizeBytes |->
        LET base == 8 * (BloomSizeBytes - i)
        IN  SumSeq([k \in 1..8 |-> IF (base + k - 1) \in bloom THEN Pow2(k - 1) ELSE 0])]

BytesToBloom(bytes) ==
    {bit \in 0..(BloomSizeBits - 1) :
        (bytes[BloomSizeBytes - (bit \div 8)] \div Pow2(bit % 8)) % 2 = 1}

----------------------------------------------------------------------------
(* alloy_rlp: the primitive codec the receipt codec is written with *)

EmptyStringCode == 128
EmptyListCode == 192

RECURSIVE NatToBytes(_)
\* to_be_bytes with the leading zero bytes trimmed: 0 is the empty string
NatToBytes(x) == IF x = 0 THEN <<>> ELSE Append(NatToBytes(x \div 256), x % 256)

RECURSIVE BytesToNat(_)
\* from_be_bytes
BytesToNat(bytes) ==
    IF bytes = <<>> THEN 0
    ELSE BytesToNat(Take(bytes, Len(bytes) - 1)) * 256 + bytes[Len(bytes)]

\* Header::encode
HeaderEncode(list, payload_length) ==
    IF payload_length < 56
    THEN <<(IF list THEN EmptyListCode ELSE EmptyStringCode) + payload_length>>
    ELSE LET len_be == NatToBytes(payload_length)
         IN  <<(IF list THEN 247 ELSE 183) + Len(len_be)>> \o len_be

\* Header::length, computed from the number and not from the bytes
RECURSIVE ByteWidth(_)
ByteWidth(x) == IF x = 0 THEN 0 ELSE 1 + ByteWidth(x \div 256)
HeaderLength(payload_length) ==
    IF payload_length < 56 THEN 1 ELSE 1 + ByteWidth(payload_length)

\* impl Encodable for [u8]
BytesEncode(bytes) ==
    IF Len(bytes) # 1 \/ bytes[1] >= EmptyStringCode
    THEN HeaderEncode(FALSE, Len(bytes)) \o bytes
    ELSE bytes
BytesLength(bytes) ==
    IF Len(bytes) # 1 \/ bytes[1] >= EmptyStringCode
    THEN Len(bytes) + HeaderLength(Len(bytes))
    ELSE Len(bytes)

\* impl Encodable for u128
U128Encode(x) ==
    IF x = 0 THEN <<EmptyStringCode>>
    ELSE IF x < EmptyStringCode THEN <<x>>
    ELSE LET be == NatToBytes(x) IN <<EmptyStringCode + Len(be)>> \o be
U128Length(x) == IF x < EmptyStringCode THEN 1 ELSE 1 + ByteWidth(x)

\* impl Encodable for bool
BoolEncode(flag) == IF flag THEN <<1>> ELSE <<EmptyStringCode>>
BoolLength(flag) == 1

\* impl Encodable for FixedBytes<N> (Address, B256, Bloom): a byte string
FixedEncode(bytes) == BytesEncode(bytes)
FixedLength(bytes) == BytesLength(bytes)

\* A decoded header, once its payload is known to be there
HeaderOf(list, len, rest) ==
    IF Len(rest) < len THEN Err("InputTooShort")
    ELSE [ok |-> TRUE, list |-> list, len |-> len, rest |-> rest]

\* Header::decode, first byte 0x80..=0xB7: a string of up to 55 bytes
ShortStringHeader(src, len) ==
    IF len = 1 /\ Len(src) < 2 THEN Err("InputTooShort")
    ELSE IF len = 1 /\ src[2] < EmptyStringCode THEN Err("NonCanonicalSingleByte")
    ELSE HeaderOf(FALSE, len, Drop(src, 1))

LongHeaderOf(src, list, len_of_len, len) ==
    IF len < 56 THEN Err("NonCanonicalSize")
    ELSE HeaderOf(list, len, Drop(src, 1 + len_of_len))

\* Header::decode, first byte 0xB8..=0xBF or 0xF8..=0xFF: the length follows
LongHeader(src, list, len_of_len) ==
    IF Len(src) - 1 < len_of_len THEN Err("InputTooShort")
    ELSE IF src[2] = 0 THEN Err("LeadingZero")
    \* a length of four bytes or more is at least 2^24: longer than every
    \* slice here, so the final length check fails
    ELSE IF len_of_len > 3 THEN Err("InputTooShort")
    ELSE LongHeaderOf(src, list, len_of_len, BytesToNat(SubSeq(src, 2, 1 + len_of_len)))

\* Header::decode: [ok, list, len, rest]; a single byte below 0x80 is its own
\* payload and is not consumed by the header
HeaderDecode(src) ==
    IF src = <<>> THEN Err("InputTooShort")
    ELSE IF src[1] < EmptyStringCode THEN HeaderOf(FALSE, 1, src)
    ELSE IF src[1] <= 183 THEN ShortStringHeader(src, src[1] - EmptyStringCode)
    ELSE IF src[1] <= 191 THEN LongHeader(src, FALSE, src[1] - 183)
    ELSE IF src[1] <= 247 THEN HeaderOf(TRUE, src[1] - EmptyListCode, Drop(src, 1))
    ELSE LongHeader(src, TRUE, src[1] - 247)

\* Header::decode_bytes: the payload of a string (or list) header
PayloadOf(h, is_list) ==
    IF ~h.ok THEN h
    ELSE IF h.list # is_list
    THEN Err(IF is_list THEN "UnexpectedString" ELSE "UnexpectedList")
    ELSE Got(Take(h.rest, h.len), Drop(h.rest, h.len))
DecodeBytes(src, is_list) == PayloadOf(HeaderDecode(src), is_list)

\* static_left_pad then from_be_bytes, for an integer of `width` bytes
UintOf(p, width) ==
    IF ~p.ok THEN p
    ELSE IF Len(p.val) > width THEN Err("Overflow")
    ELSE IF p.val = <<>> THEN Got(0, p.rest)
    ELSE IF p.val[1] = 0 THEN Err("LeadingZero")
    ELSE Got(BytesToNat(p.val), p.rest)
UintDecode(src, width) == UintOf(DecodeBytes(src, FALSE), width)

\* impl Decodable for u128
U128Decode(src) == UintDecode(src, U128Bytes)

\* impl Decodable for bool: a u8 that is 0 or 1
BoolOf(x) ==
    IF ~x.ok THEN x
    ELSE IF x.val = 0 THEN Got(FALSE, x.rest)
    ELSE IF x.val = 1 THEN Got(TRUE, x.rest)
    ELSE Err("Custom: invalid bool value, must be 0 or 1")
BoolDecode(src) == BoolOf(UintDecode(src, 1))

\* impl Decodable for FixedBytes<N>
FixedOf(p, width) ==
    IF ~p.ok THEN p
    ELSE IF Len(p.val) # width THEN Err("UnexpectedLength")
    ELSE p
FixedDecode(src, width) == FixedOf(DecodeBytes(src, FALSE), width)

\* impl Decodable for Bytes
BytesDecode(src) == DecodeBytes(src, FALSE)

----------------------------------------------------------------------------
(* The codecs of the field types *)

\* impl Encodable for Vec<B256>
TopicsPayload(topics) == Concat([i \in 1..Len(topics) |-> FixedEncode(topics[i])])
TopicsEncode(topics) ==
    LET payload == TopicsPayload(topics)
    IN  HeaderEncode(TRUE, Len(payload)) \o payload
TopicsLength(topics) ==
    LET payload_length == SumSeq([i \in 1..Len(topics) |-> FixedLength(topics[i])])
    IN  HeaderLength(payload_length) + payload_length

\* impl Encodable for Log: the list of address, topics, data
LogEncode(log) ==
    LET payload == FixedEncode(log.address) \o TopicsEncode(log.topics)
                   \o BytesEncode(log.data)
    IN  HeaderEncode(TRUE, Len(payload)) \o payload
LogLength(log) ==
    LET payload_length == FixedLength(log.address) + TopicsLength(log.topics)
                          + BytesLength(log.data)
    IN  HeaderLength(payload_length) + payload_length

\* impl Encodable for Vec<Log>
LogsEncode(logs) ==
    LET payload == Concat([i \in 1..Len(logs) |-> LogEncode(logs[i])])
    IN  HeaderEncode(TRUE, Len(payload)) \o payload
LogsLength(logs) ==
    LET payload_length == SumSeq([i \in 1..Len(logs) |-> LogLength(logs[i])])
    IN  HeaderLength(payload_length) + payload_length

\* impl Decodable for Vec<B256>: items until the payload is used up
RECURSIVE TopicItemsDecode(_, _)
TopicItemOf(t, acc) == IF ~t.ok THEN t ELSE TopicItemsDecode(t.rest, Append(acc, t.val))
TopicItemsDecode(payload, acc) ==
    IF payload = <<>> THEN Ok(acc) ELSE TopicItemOf(FixedDecode(payload, HashLen), acc)
ListOf(items, rest) == IF ~items.ok THEN items ELSE Got(items.val, rest)
TopicsOf(p) == IF ~p.ok THEN p ELSE ListOf(TopicItemsDecode(p.val, <<>>), p.rest)
TopicsDecode(src) == TopicsOf(DecodeBytes(src, TRUE))

\* impl Decodable for Log: address, topics, data, which must use the payload up
LogOfData(a, ts, d, rest) ==
    IF ~d.ok THEN d
    ELSE IF d.rest # <<>> THEN Err("ListLengthMismatch")
    ELSE Got(MkLog(a.val, ts.val, d.val), rest)
LogOfTopics(a, ts, rest) ==
    IF ~ts.ok THEN ts ELSE LogOfData(a, ts, BytesDecode(ts.rest), rest)
LogOfAddress(a, rest) ==
    IF ~a.ok THEN a ELSE LogOfTopics(a, TopicsDecode(a.rest), rest)
LogOf(p) == IF ~p.ok THEN p ELSE LogOfAddress(FixedDecode(p.val, AddressLen), p.rest)
LogDecode(src) == LogOf(DecodeBytes(src, TRUE))

\* impl Decodable for Vec<Log>
RECURSIVE LogItemsDecode(_, _)
LogItemOf(l, acc) == IF ~l.ok THEN l ELSE LogItemsDecode(l.rest, Append(acc, l.val))
LogItemsDecode(payload, acc) ==
    IF payload = <<>> THEN Ok(acc) ELSE LogItemOf(LogDecode(payload), acc)
LogsOf(p) == IF ~p.ok THEN p ELSE ListOf(LogItemsDecode(p.val, <<>>), p.rest)
LogsDecode(src) == LogsOf(DecodeBytes(src, TRUE))

\* impl Encodable for Bloom
BloomEncode(bloom) == FixedEncode(BloomToBytes(bloom))
BloomLength(bloom) == HeaderLength(BloomSizeBytes) + BloomSizeBytes

\* impl Decodable for Bloom
BloomOf(p) == IF ~p.ok THEN p ELSE Got(BytesToBloom(p.val), p.rest)
BloomDecode(src) == BloomOf(FixedDecode(src, BloomSizeBytes))

\* impl Encodable for Eip658Value: the flag as a bool, the root as a B256
Eip658Encode(v) ==
    IF v.tag = "Eip658" THEN BoolEncode(v.status) ELSE FixedEncode(v.root)
Eip658Length(v) ==
    IF v.tag = "Eip658" THEN BoolLength(v.status) ELSE FixedLength(v.root)

\* impl Decodable for Eip658Value: a 32-byte string is the root, anything else
\* is read as the flag
PostStateOf(h) == IF ~h.ok THEN h ELSE Got(PostState(h.val), h.rest)
Eip658Of(f) == IF ~f.ok THEN f ELSE Got(Eip658(f.val), f.rest)
Eip658Decode(src) ==
    IF src # <<>> /\ src[1] = EmptyStringCode + HashLen
    THEN PostStateOf(FixedDecode(src, HashLen))
    ELSE Eip658Of(BoolDecode(src))

----------------------------------------------------------------------------
(* impl RlpReceipt for Receipt *)

\* struct ReceiptWithBloom
MkReceiptWithBloom(rcpt, bloom) == [receipt |-> rcpt, logs_bloom |-> bloom]

\* Mutant of the length: the bloom is left out of the sum.
rlp_encoded_fields_length_no_bloom(rcpt, bloom) ==
    Eip658Length(rcpt.status) + U128Length(rcpt.cumulative_gas_used)
    + LogsLength(rcpt.logs)

\* Receipt::rlp_encoded_fields_length_with_bloom
rlp_encoded_fields_length_with_bloom(rcpt, bloom) ==
    Eip658Length(rcpt.status)
    + U128Length(rcpt.cumulative_gas_used)
    + BloomLength(bloom)
    + LogsLength(rcpt.logs)

\* Mutant of the encoder: the receipt's own bloom is written, not the one given.
rlp_encode_fields_own_bloom(rcpt, bloom, sink) ==
    sink \o Eip658Encode(rcpt.status) \o U128Encode(rcpt.cumulative_gas_used)
         \o BloomEncode(bloom_slow(rcpt)) \o LogsEncode(rcpt.logs)

\* Receipt::rlp_encode_fields_with_bloom: what `out` holds afterwards
rlp_encode_fields_with_bloom(rcpt, bloom, sink) ==
    LET o1 == sink \o Eip658Encode(rcpt.status)
        o2 == o1 \o U128Encode(rcpt.cumulative_gas_used)
        o3 == o2 \o BloomEncode(bloom)
        o4 == o3 \o LogsEncode(rcpt.logs)
    IN  o4

\* The error of `?`, with the name of the field that failed
FieldErr(field, res) == Err(<<field, res.err>>)

\* after let logs = Decodable::decode(buf)?;
\* Ok(ReceiptWithBloom { receipt: Self { status, cumulative_gas_used, logs }, logs_bloom })
AfterLogs(status, cumulative_gas_used, logs_bloom, logs) ==
    IF ~logs.ok THEN FieldErr("logs", logs)
    ELSE Got(MkReceiptWithBloom(MkReceipt(status.val, cumulative_gas_used.val, logs.val),
                                logs_bloom.val), logs.rest)

\* Mutant of the decoder: a bloom that fails to decode is replaced by ZERO.
AfterBloomLenient(status, cumulative_gas_used, logs_bloom) ==
    IF ~logs_bloom.ok
    THEN Got(MkReceiptWithBloom(MkReceipt(status.val, cumulative_gas_used.val, <<>>),
                                ZeroBloom), <<>>)
    ELSE AfterLogs(status, cumulative_gas_used, logs_bloom, LogsDecode(logs_bloom.rest))

\* after let logs_bloom = Decodable::decode(buf)?; the logs are decoded
AfterBloom(status, cumulative_gas_used, logs_bloom) ==
    IF ~logs_bloom.ok THEN FieldErr("logs_bloom", logs_bloom)
    ELSE AfterLogs(status, cumulative_gas_used, logs_bloom, LogsDecode(logs_bloom.rest))

\* after let cumulative_gas_used = Decodable::decode(buf)?; the bloom is decoded
AfterGas(status, cumulative_gas_used) ==
    IF ~cumulative_gas_used.ok THEN FieldErr("cumulative_gas_used", cumulative_gas_used)
    ELSE AfterBloom(status, cumulative_gas_used, BloomDecode(cumulative_gas_used.rest))

\* after let status = Decodable::decode(buf)?; the gas is decoded
AfterStatus(status) ==
    IF ~status.ok THEN FieldErr("status", status)
    ELSE AfterGas(status, U128Decode(status.rest))

\* Receipt::rlp_decode_fields_with_bloom: let status = Decodable::decode(buf)?;
\* and so on.  Each `?` returns the error of the field that failed (recorded
\* here with the field's name); on success the unread rest of the slice is
\* returned with the value.
rlp_decode_fields_with_bloom(src) == AfterStatus(Eip658Decode(src))

----------------------------------------------------------------------------
(* The codec at work: a receipt and a bloom are encoded, the bytes travel    *)
(* (whole, with bytes after them, cut short or with a byte changed) and are  *)
(* decoded.                                                                  *)

Idle == "idle"

RlpGasValues == {0, 127, 128, 65536}
RlpBlooms == {{7, 8, 2047}, bloom_slow(MkReceipt(Eip658(TRUE), 0, <<LogOneTopic>>))}

\* Where the four fields of the encoding of (rcpt, bloom) end
FieldEnds(rcpt, bloom) ==
    LET e1 == Eip658Length(rcpt.status)
        e2 == e1 + U128Length(rcpt.cumulative_gas_used)
        e3 == e2 + BloomLength(bloom)
        e4 == e3 + LogsLength(rcpt.logs)
    IN  <<e1, e2, e3, e4>>

\* Lengths the bytes are cut to: at and around every field boundary
CutPoints(rcpt, bloom) ==
    LET e == FieldEnds(rcpt, bloom)
    IN  {k \in {0, 1, e[1], e[1] + 1, e[2], e[2] + 1, e[2] + 3, e[3] - 1, e[3],
                e[3] + 1, e[4] - 1} : k >= 0 /\ k < e[4]}

\* The first byte of every field, and the bytes it is changed to
FieldStarts(rcpt, bloom) ==
    LET e == FieldEnds(rcpt, bloom) IN {1, e[1] + 1, e[2] + 1, e[3] + 1}
BadBytes == {0, 2, 129, 200}

InitRlp ==
    /\ r \in {MkReceipt(s, g, ls) : s \in Outcomes, g \in RlpGasValues, ls \in LogSeqs}
    /\ b \in RlpBlooms
    /\ out = <<>>
    /\ n = None
    /\ buf = <<>>
    /\ dec = None
    /\ op = Idle
    /\ w = None
    /\ q = None
    /\ coll = <<>>
    /\ arg = None
    /\ json = <<>>
    /\ parsed = None

\* r.rlp_encoded_fields_length_with_bloom(b): the caller sizes the buffer first
EncodedFieldsLength ==
    /\ op = Idle
    /\ n' = Some(rlp_encoded_fields_length_with_bloom(r, b))
    /\ op' = "rlp_encoded_fields_length_with_bloom"
    /\ UNCHANGED <<r, b, out, buf, dec, w, q, coll, arg, json, parsed>>

\* r.rlp_encode_fields_with_bloom(b, &mut out), out a fresh buffer
EncodeFields ==
    /\ op = "rlp_encoded_fields_length_with_bloom"
    /\ out' = rlp_encode_fields_with_bloom(r, b, <<>>)
    /\ op' = "rlp_encode_fields_with_bloom"
    /\ UNCHANGED <<r, b, n, buf, dec, w, q, coll, arg, json, parsed>>

\* The written bytes reach a reader, perhaps with more bytes after them
Deliver ==
    /\ op = "rlp_encode_fields_with_bloom"
    /\ \E tail \in {<<>>, <<EmptyListCode>>, <<1, 2>>} : buf' = out \o tail
    /\ dec' = None
    /\ op' = "deliver"
    /\ UNCHANGED <<r, b, out, n, w, q, coll, arg, json, parsed>>

\* ... or cut short
Truncate ==
    /\ op = "rlp_encode_fields_with_bloom"
    /\ \E k \in CutPoints(r, b) : buf' = Take(out, k)
    /\ dec' = None
    /\ op' = "truncate"
    /\ UNCHANGED <<r, b, out, n, w, q, coll, arg, json, parsed>>

\* ... or with the first byte of a field changed
Corrupt ==
    /\ op = "rlp_encode_fields_with_bloom"
    /\ \E p \in FieldStarts(r, b), v \in BadBytes :
          /\ p <= Len(out)
          /\ out[p] # v
          /\ buf' = [out EXCEPT ![p] = v]
    /\ dec' = None
    /\ op' = "corrupt"
    /\ UNCHANGED <<r, b, out, n, w, q, coll, arg, json, parsed>>

\* Receipt::rlp_decode_fields_with_bloom(&mut buf)
DecodeFields ==
    /\ op \in {"deliver", "truncate", "corrupt"}
    /\ dec' = Some(rlp_decode_fields_with_bloom(buf))
    /\ op' = "rlp_decode_fields_with_bloom"
    /\ UNCHANGED <<r, b, out, n, buf, w, q, coll, arg, json, parsed>>

NextRlp ==
    \/ EncodedFieldsLength
    \/ EncodeFields
    \/ Deliver
    \/ Truncate
    \/ Corrupt
    \/ DecodeFields

SpecRlp == InitRlp /\ [][NextRlp]_vars

----------------------------------------------------------------------------
(* Receipt and ReceiptWithBloom: conversions and the TxReceipt queries *)

\* Mutant of with_bloom: the cache is left at its default.
with_bloom_default(rcpt) == MkReceiptWithBloom(rcpt, ZeroBloom)

\* Receipt::with_bloom
with_bloom(rcpt) == MkReceiptWithBloom(rcpt, bloom_slow(rcpt))

\* impl TxReceipt for Receipt (the queries the properties are about)
Receipt_bloom(rcpt) == bloom_slow(rcpt)
Receipt_logs(rcpt) == rcpt.logs
\* TxReceipt::bloom_cheap as a bare Receipt has it: the impl does not define it
Receipt_bloom_cheap(rcpt) == None

\* Mutant of bloom_cheap: the wrapper recomputes instead of reading its cache.
ReceiptWithBloom_bloom_cheap_recomputed(rwb) == Some(bloom_slow(rwb.receipt))

\* impl TxReceipt for ReceiptWithBloom (the queries the properties are about)
ReceiptWithBloom_bloom(rwb) == rwb.logs_bloom
ReceiptWithBloom_bloom_cheap(rwb) == Some(rwb.logs_bloom)
ReceiptWithBloom_logs(rwb) == Receipt_logs(rwb.receipt)

\* Mutant of From<R>: the cheap bloom is asked for, and its absence defaulted.
ReceiptWithBloom_from_cheap(rcpt) ==
    LET cheap == Receipt_bloom_cheap(rcpt)
    IN  MkReceiptWithBloom(rcpt, IF cheap.some THEN cheap.val ELSE ZeroBloom)

\* impl From<R> for ReceiptWithBloom<R>
ReceiptWithBloom_from(rcpt) ==
    LET logs_bloom == Receipt_bloom(rcpt)
    IN  MkReceiptWithBloom(rcpt, logs_bloom)

\* ReceiptWithBloom::new
ReceiptWithBloom_new(rcpt, logs_bloom) == MkReceiptWithBloom(rcpt, logs_bloom)

\* ReceiptWithBloom::into_components
into_components(rwb) == <<rwb.receipt, rwb.logs_bloom>>

\* impl From<ReceiptWithBloom<Receipt>> for Receipt
Receipt_from(rwb) == rwb.receipt

\* A wrapper and the operation that made it what it is
Made(rwb, by) == [some |-> TRUE, val |-> rwb, by |-> by]

SpecGasValues == {0, 21000}

Init ==
    /\ r \in {MkReceipt(s, g, ls) : s \in Outcomes, g \in SpecGasValues, ls \in LogSeqs}
    /\ b \in Blooms
    /\ w = None
    /\ q = None
    /\ op = Idle
    /\ out = <<>>
    /\ n = None
    /\ buf = <<>>
    /\ dec = None
    /\ coll = <<>>
    /\ arg = None
    /\ json = <<>>
    /\ parsed = None

Untouched == <<out, n, buf, dec, coll, arg, json, parsed>>

\* r.with_bloom()
WithBloom ==
    /\ w' = Made(with_bloom(r), "with_bloom")
    /\ op' = "with_bloom"
    /\ q' = None
    /\ UNCHANGED <<r, b, Untouched>>

\* ReceiptWithBloom::from(r)
FromReceipt ==
    /\ w' = Made(ReceiptWithBloom_from(r), "from")
    /\ op' = "from"
    /\ q' = None
    /\ UNCHANGED <<r, b, Untouched>>

\* ReceiptWithBloom::new(r, b)
New ==
    /\ w' = Made(ReceiptWithBloom_new(r, b), "new")
    /\ op' = "new"
    /\ q' = None
    /\ UNCHANGED <<r, b, Untouched>>

\* let (r, b) = w.into_components()
IntoComponents ==
    /\ w.some
    /\ r' = into_components(w.val)[1]
    /\ b' = into_components(w.val)[2]
    /\ w' = None
    /\ op' = "into_components"
    /\ q' = None
    /\ UNCHANGED Untouched

\* let r = Receipt::from(w)
IntoReceipt ==
    /\ w.some
    /\ r' = Receipt_from(w.val)
    /\ w' = None
    /\ op' = "Receipt::from"
    /\ q' = None
    /\ UNCHANGED <<b, Untouched>>

\* w.logs_bloom = b: the field is pub
AssignLogsBloom ==
    /\ w.some
    /\ w' = Made([w.val EXCEPT !.logs_bloom = b], "field")
    /\ op' = "assign logs_bloom"
    /\ q' = None
    /\ UNCHANGED <<r, b, Untouched>>

\* w.receipt.logs.push(log): the fields are pub
PushLog ==
    /\ w.some
    /\ Len(w.val.receipt.logs) < MaxLogs
    /\ \E log \in Logs :
          w' = Made([w.val EXCEPT !.receipt.logs = Append(@, log)], "field")
    /\ op' = "push log"
    /\ q' = None
    /\ UNCHANGED <<r, b, Untouched>>

Query(name, value) ==
    /\ q' = Some(value)
    /\ op' = name
    /\ UNCHANGED <<r, b, w, Untouched>>

\* the queries of a bare Receipt
ReceiptBloomSlow == Query("bloom_slow", bloom_slow(r))
ReceiptBloom == Query("Receipt::bloom", Receipt_bloom(r))
ReceiptBloomCheap == Query("Receipt::bloom_cheap", Receipt_bloom_cheap(r))
ReceiptLogs == Query("Receipt::logs", Receipt_logs(r))

\* the queries of a ReceiptWithBloom
WrapperBloom == w.some /\ Query("ReceiptWithBloom::bloom", ReceiptWithBloom_bloom(w.val))
WrapperBloomCheap ==
    w.some /\ Query("ReceiptWithBloom::bloom_cheap", ReceiptWithBloom_bloom_cheap(w.val))
WrapperLogs == w.some /\ Query("ReceiptWithBloom::logs", ReceiptWithBloom_logs(w.val))

Next ==
    \/ WithBloom
    \/ FromReceipt
    \/ New
    \/ IntoComponents
    \/ IntoReceipt
    \/ AssignLogsBloom
    \/ PushLog
    \/ ReceiptBloomSlow
    \/ ReceiptBloom
    \/ ReceiptBloomCheap
    \/ ReceiptLogs
    \/ WrapperBloom
    \/ WrapperBloomCheap
    \/ WrapperLogs

Spec == Init /\ [][Next]_vars

----------------------------------------------------------------------------
(* Receipts<T>: the two-level collection *)

\* The receipts the blocks are made of
CollItems == {MkReceipt(Eip658(TRUE), 21000, <<>>), MkReceipt(Eip658(FALSE), 42000, <<LogPlain>>)}
Blocks == SeqsUpTo(CollItems, MaxBlockTxs)

\* Receipts::default
Receipts_default == <<>>
\* impl From<Vec<T>> for Receipts<T>
Receipts_from(block_receipts) == <<block_receipts>>
\* impl FromIterator<Vec<T>> for Receipts<T>
Receipts_from_iter(iter) == iter

\* Receipts::len
len(receipt_vec) == Len(receipt_vec)
\* Receipts::is_empty
is_empty(receipt_vec) == receipt_vec = <<>>

\* Mutant of push: the block is put in front.
push_front(receipt_vec, receipts) == <<receipts>> \o receipt_vec

\* Mutant of push: an empty block is dropped.
push_nonempty(receipt_vec, receipts) ==
    IF receipts = <<>> THEN receipt_vec ELSE Append(receipt_vec, receipts)

\* Receipts::push
push(receipt_vec, receipts) == Append(receipt_vec, receipts)

\* What derive(DerefMut) hands out: the Vec<Vec<T>> itself, with all its methods
deref_mut_pop(receipt_vec) ==
    IF receipt_vec = <<>> THEN receipt_vec ELSE Take(receipt_vec, Len(receipt_vec) - 1)
deref_mut_clear(receipt_vec) == <<>>
deref_mut_reverse(receipt_vec) ==
    [i \in 1..Len(receipt_vec) |-> receipt_vec[Len(receipt_vec) + 1 - i]]
deref_mut_index_assign(receipt_vec, i, receipts) == [receipt_vec EXCEPT ![i] = receipts]

InitColl ==
    /\ coll \in {Receipts_default}
                \cup {Receipts_from(v) : v \in Blocks}
                \cup {Receipts_from_iter(vs) : vs \in SeqsUpTo(Blocks, MaxBlocks)}
    /\ arg = None
    /\ q = None
    /\ op = Idle
    /\ r = MkReceipt(Eip658(TRUE), 0, <<>>)
    /\ b = ZeroBloom
    /\ w = None
    /\ out = <<>>
    /\ n = None
    /\ buf = <<>>
    /\ dec = None
    /\ json = <<>>
    /\ parsed = None

CollUntouched == <<r, b, w, out, n, buf, dec, json, parsed>>

\* coll.push(v)
Push ==
    /\ len(coll) < MaxBlocks
    /\ \E v \in Blocks :
          /\ coll' = push(coll, v)
          /\ arg' = Some(v)
    /\ q' = None
    /\ op' = "push"
    /\ UNCHANGED CollUntouched

\* coll.len()
CollLen ==
    /\ q' = Some(len(coll))
    /\ arg' = None
    /\ op' = "len"
    /\ UNCHANGED <<coll, CollUntouched>>

\* coll.is_empty()
CollIsEmpty ==
    /\ q' = Some(is_empty(coll))
    /\ arg' = None
    /\ op' = "is_empty"
    /\ UNCHANGED <<coll, CollUntouched>>

\* coll.pop(), through DerefMut
DerefMutPop ==
    /\ coll' = deref_mut_pop(coll)
    /\ arg' = None
    /\ q' = None
    /\ op' = "deref_mut pop"
    /\ UNCHANGED CollUntouched

\* coll.clear(), through DerefMut
DerefMutClear ==
    /\ coll' = deref_mut_clear(coll)
    /\ arg' = None
    /\ q' = None
    /\ op' = "deref_mut clear"
    /\ UNCHANGED CollUntouched

\* coll.reverse(), through DerefMut
DerefMutReverse ==
    /\ coll' = deref_mut_reverse(coll)
    /\ arg' = None
    /\ q' = None
    /\ op' = "deref_mut reverse"
    /\ UNCHANGED CollUntouched

\* coll[i] = v, through DerefMut
DerefMutIndexAssign ==
    /\ \E i \in 1..Len(coll), v \in Blocks :
          /\ coll' = deref_mut_index_assign(coll, i, v)
          /\ arg' = Some(v)
    /\ q' = None
    /\ op' = "deref_mut index assign"
    /\ UNCHANGED CollUntouched

NextColl ==
    \/ Push
    \/ CollLen
    \/ CollIsEmpty
    \/ DerefMutPop
    \/ DerefMutClear
    \/ DerefMutReverse
    \/ DerefMutIndexAssign

SpecColl == InitColl /\ [][NextColl]_vars

----------------------------------------------------------------------------
(* The serde shape of a Receipt.  A JSON object is the sequence of its       *)
(* entries in the order they are written; a string is its sequence of        *)
(* characters.                                                               *)

HexDigits == <<"0", "1", "2", "3", "4", "5", "6", "7", "8", "9", "a", "b", "c", "d", "e", "f">>
IsHexDigit(c) == \E d \in 1..16 : HexDigits[d] = c
HexValue(c) == (CHOOSE d \in 1..16 : HexDigits[d] = c) - 1

JStr(chars) == [kind |-> "string", chars |-> chars]
JArr(items) == [kind |-> "array", items |-> items]
JNull == [kind |-> "null"]
Entry(key, value) == [key |-> key, value |-> value]

RECURSIVE NatToHex(_)
NatToHex(x) == IF x = 0 THEN <<>> ELSE Append(NatToHex(x \div 16), HexDigits[(x % 16) + 1])

\* alloy_serde::quantity: 0x and the hex digits without leading zeros, 0x0 for zero
QuantityToJson(x) == JStr(<<"0", "x">> \o (IF x = 0 THEN <<"0">> ELSE NatToHex(x)))

\* B256 as text: 0x and two hex digits for each of the 32 bytes
HashToJson(h) ==
    JStr(<<"0", "x">> \o
         Concat([i \in 1..Len(h) |-> <<HexDigits[(h[i] \div 16) + 1], HexDigits[(h[i] % 16) + 1]>>]))

RECURSIVE HexToNat(_)
HexToNat(chars) ==
    IF chars = <<>> THEN 0
    ELSE HexToNat(Take(chars, Len(chars) - 1)) * 16 + HexValue(chars[Len(chars)])

HasHexPrefix(v) ==
    /\ v.kind = "string"
    /\ Len(v.chars) > 2
    /\ v.chars[1] = "0" /\ v.chars[2] = "x"
    /\ \A i \in 3..Len(v.chars) : IsHexDigit(v.chars[i])

\* a quantity of at most `bits` bits (every number of the model is below 2^30,
\* so only a narrow type can be overrun)
QuantityFromJson(v, bits) ==
    IF ~HasHexPrefix(v) THEN Err("invalid quantity")
    ELSE LET x == HexToNat(Drop(v.chars, 2))
         IN  IF bits < 30 /\ x >= Pow2(bits) THEN Err("quantity out of range") ELSE Ok(x)

HashFromJson(v) ==
    IF ~HasHexPrefix(v) \/ Len(v.chars) # 2 + 2 * HashLen THEN Err("invalid hash")
    ELSE Ok([i \in 1..HashLen |-> HexValue(v.chars[2 * i + 1]) * 16 + HexValue(v.chars[2 * i + 2])])

\* impl Serialize for Eip658Value: one entry, "status" or "root"
Eip658_serialize(v) ==
    IF v.tag = "Eip658"
    THEN <<Entry("status", QuantityToJson(IF v.status THEN 1 ELSE 0))>>
    ELSE <<Entry("root", HashToJson(v.root))>>

EntriesWithKey(obj, key) == {i \in 1..Len(obj) : obj[i].key = key}
Field(obj, key) == obj[CHOOSE i \in EntriesWithKey(obj, key) : TRUE].value

\* impl Deserialize for Eip658Value: exactly one of "status" and "root"
Eip658_deserialize(obj) ==
    LET statuses == EntriesWithKey(obj, "status")
        roots == EntriesWithKey(obj, "root")
    IN  IF Cardinality(statuses) > 1 THEN Err("duplicate field status")
        ELSE IF Cardinality(roots) > 1 THEN Err("duplicate field root")
        ELSE IF statuses # {} /\ roots # {} THEN Err("both status and root")
        ELSE IF statuses = {} /\ roots = {} THEN Err("missing field status or root")
        ELSE IF statuses # {}
        THEN LET x == QuantityFromJson(Field(obj, "status"), 1)
             IN  IF ~x.ok THEN x ELSE Ok(Eip658(x.val = 1))
        ELSE LET h == HashFromJson(Field(obj, "root"))
             IN  IF ~h.ok THEN h ELSE Ok(PostState(h.val))

\* The log type of the tests is (): null in JSON
Unit == "()"
UnitLogs(k) == Rep(k, Unit)
LogsToJson(logs) == JArr([i \in 1..Len(logs) |-> JNull])
LogsFromJson(v) ==
    IF v.kind # "array" THEN Err("invalid type: expected a sequence")
    ELSE IF \E i \in 1..Len(v.items) : v.items[i] # JNull THEN Err("invalid type: expected unit")
    ELSE Ok(UnitLogs(Len(v.items)))

\* Mutant of the derive: status is not flattened, so it is nested under its name.
Receipt_serialize_unflattened(rcpt) ==
    <<Entry("status", Eip658_serialize(rcpt.status)[1].value),
      Entry("cumulativeGasUsed", QuantityToJson(rcpt.cumulative_gas_used)),
      Entry("logs", LogsToJson(rcpt.logs))>>

\* derive(Serialize) for Receipt: status flattened, camelCase names, the gas
\* as a quantity
Receipt_serialize(rcpt) ==
    Eip658_serialize(rcpt.status)
    \o <<Entry("cumulativeGasUsed", QuantityToJson(rcpt.cumulative_gas_used)),
         Entry("logs", LogsToJson(rcpt.logs))>>

\* derive(Deserialize) for Receipt: the named fields are taken out of the map,
\* the entries left over go to the flattened status
Receipt_deserialize(obj) ==
    LET gases == EntriesWithKey(obj, "cumulativeGasUsed")
        logss == EntriesWithKey(obj, "logs")
        others == SelectSeq(obj, LAMBDA e : e.key \notin {"cumulativeGasUsed", "logs"})
    IN  IF Cardinality(gases) > 1 THEN Err("duplicate field cumulativeGasUsed")
        ELSE IF Cardinality(logss) > 1 THEN Err("duplicate field logs")
        ELSE IF gases = {} THEN Err("missing field cumulativeGasUsed")
        ELSE IF logss = {} THEN Err("missing field logs")
        ELSE LET g == QuantityFromJson(Field(obj, "cumulativeGasUsed"), 8 * U128Bytes)
                 ls == LogsFromJson(Field(obj, "logs"))
                 st == Eip658_deserialize(others)
             IN  IF ~g.ok THEN g
                 ELSE IF ~ls.ok THEN ls
                 ELSE IF ~st.ok THEN st
                 ELSE Ok(MkReceipt(st.val, g.val, ls.val))

\* the JSON of test::deser_pre658
Pre658Json ==
    <<Entry("root", HashToJson(T1)),
      Entry("cumulativeGasUsed", JStr(<<"0", "x", "0">>)),
      Entry("logs", JArr(<<>>))>>

\* Objects that did not come from the serializer
JsonInputs ==
    {Pre658Json,
     <<Entry("cumulativeGasUsed", JStr(<<"0", "x", "0">>)), Entry("logs", JArr(<<>>)),
       Entry("root", HashToJson(T2))>>,
     <<Entry("status", JStr(<<"0", "x", "1">>)), Entry("root", HashToJson(T0)),
       Entry("cumulativeGasUsed", JStr(<<"0", "x", "1">>)), Entry("logs", JArr(<<>>))>>,
     <<Entry("status", JStr(<<"0", "x", "2">>)),
       Entry("cumulativeGasUsed", JStr(<<"0", "x", "1">>)), Entry("logs", JArr(<<>>))>>,
     <<Entry("root", JStr(<<"0", "x", "1">>)),
       Entry("cumulativeGasUsed", JStr(<<"0", "x", "1">>)), Entry("logs", JArr(<<>>))>>,
     <<Entry("root", HashToJson(T1))>>}

InitJson ==
    /\ r \in {MkReceipt(s, g, UnitLogs(k)) : s \in Outcomes, g \in GasValues, k \in 0..MaxLogs}
    /\ json = <<>>
    /\ parsed = None
    /\ op = Idle
    /\ b = ZeroBloom
    /\ w = None
    /\ q = None
    /\ out = <<>>
    /\ n = None
    /\ buf = <<>>
    /\ dec = None
    /\ coll = <<>>
    /\ arg = None

JsonUntouched == <<r, b, w, q, out, n, buf, dec, coll, arg>>

\* serde_json::to_string(&r)
Serialize ==
    /\ op = Idle
    /\ json' = Receipt_serialize(r)
    /\ parsed' = None
    /\ op' = "serialize"
    /\ UNCHANGED JsonUntouched

\* An object arrives from elsewhere
Receive ==
    /\ op = Idle
    /\ json' \in JsonInputs
    /\ parsed' = None
    /\ op' = "receive"
    /\ UNCHANGED JsonUntouched

\* An entry of the serialized object is lost on the way
DropEntry ==
    /\ op = "serialize"
    /\ \E i \in 1..Len(json) :
          json' = [k \in 1..(Len(json) - 1) |-> IF k < i THEN json[k] ELSE json[k + 1]]
    /\ parsed' = None
    /\ op' = "drop entry"
    /\ UNCHANGED JsonUntouched

\* serde_json::from_str::<Receipt<()>>(json)
Deserialize ==
    /\ op \in {"serialize", "receive", "drop entry"}
    /\ parsed' = Some(Receipt_deserialize(json))
    /\ op' = "deserialize"
    /\ UNCHANGED <<json, JsonUntouched>>

NextJson ==
    \/ Serialize
    \/ Receive
    \/ DropEntry
    \/ Deserialize

SpecJson == InitJson /\ [][NextJson]_vars

----------------------------------------------------------------------------
(* The properties *)

Decoded == op = "rlp_decode_fields_with_bloom"
\* the slice that was decoded begins with everything the encoder wrote
DeliveredWhole == out # <<>> /\ Len(buf) >= Len(out) /\ Take(buf, Len(out)) = out

\* C1: decoding the bytes written by r.rlp_encode_fields_with_bloom(b) succeeds
\* and returns the receipt r with the bloom b, whatever b is, and leaves unread
\* exactly what followed the written bytes.
C1_RoundTrip ==
    (Decoded /\ DeliveredWhole) =>
        /\ dec.val.ok
        /\ dec.val.val.receipt = r
        /\ dec.val.val.logs_bloom = b
        /\ dec.val.val = MkReceiptWithBloom(r, b)
        /\ dec.val.rest = Drop(buf, Len(out))

\* a post-state receipt with logs and a bloom that is not the bloom of its logs
\* has gone through the wire, with bytes after it
C1_Witness ==
    /\ Decoded /\ DeliveredWhole
    /\ r.status.tag = "PostState"
    /\ Len(r.logs) = MaxLogs
    /\ b # bloom_slow(r)
    /\ Len(buf) > Len(out)
    /\ dec.val.ok

\* The four fields in the order the decoder reads them, each with its decoder
\* applied where the one before stopped
FieldResults(src) ==
    LET f1 == Eip658Decode(src)
        f2 == IF f1.ok THEN U128Decode(f1.rest) ELSE f1
        f3 == IF f2.ok THEN BloomDecode(f2.rest) ELSE f2
        f4 == IF f3.ok THEN LogsDecode(f3.rest) ELSE f3
    IN  <<f1, f2, f3, f4>>
FieldNames == <<"status", "cumulative_gas_used", "logs_bloom", "logs">>

\* C8: the decoder returns a ReceiptWithBloom exactly when all four fields
\* decode, in the order status, gas, bloom, logs; otherwise it returns the
\* error of the first field that fails, and no receipt and no bloom.
C8_DecodeAllOrNothing ==
    Decoded =>
        LET res == dec.val
            fs == FieldResults(buf)
            failing == {i \in 1..4 : ~fs[i].ok}
        IN  /\ res.ok <=> failing = {}
            /\ res.ok => DOMAIN res = {"ok", "val", "rest"}
            /\ ~res.ok =>
                  LET first == CHOOSE i \in failing : \A j \in failing : i <= j
                  IN  /\ DOMAIN res = {"ok", "err"}
                      /\ res.err = <<FieldNames[first], fs[first].err>>

\* the bloom was cut short: status and gas decoded, the bloom did not
C8_Witness ==
    /\ Decoded
    /\ ~dec.val.ok
    /\ dec.val.err[1] = "logs_bloom"
    /\ Eip658Decode(buf).ok

\* C10: the encoder writes the encodings of status, gas, the given bloom and
\* the logs, in that order and nothing else, and the length operation returns
\* the number of bytes written.
C10_LengthAgrees ==
    op = "rlp_encode_fields_with_bloom" =>
        /\ out = Concat(<<Eip658Encode(r.status), U128Encode(r.cumulative_gas_used),
                          BloomEncode(b), LogsEncode(r.logs)>>)
        /\ n.some
        /\ n.val = Len(out)

\* a receipt with logs has been encoded: the logs alone take a long list header
C10_Witness ==
    /\ op = "rlp_encode_fields_with_bloom"
    /\ Len(r.logs) = MaxLogs
    /\ r.cumulative_gas_used > 255
    /\ n.val = Len(out)
    /\ LogsLength(r.logs) > 56

\* C2: r.with_bloom() and ReceiptWithBloom::from(r) both return the wrapper of
\* r itself whose logs_bloom is r.bloom_slow().
C2_CacheCorrect ==
    op \in {"with_bloom", "from"} =>
        /\ w.some
        /\ w.val.receipt = r
        /\ w.val.logs_bloom = bloom_slow(r)

\* a receipt with logs has been converted by From, and with_bloom agrees
C2_Witness ==
    /\ op = "from"
    /\ r.logs # <<>>
    /\ w.val.logs_bloom # ZeroBloom
    /\ w.val = with_bloom(r)

\* the cached bloom is the bloom of the wrapper's own logs
Fresh(rwb) == ReceiptWithBloom_bloom(rwb) = bloom_extend(ZeroBloom, ReceiptWithBloom_logs(rwb))

\* C3 as claimed: every ReceiptWithBloom that the operations can produce has
\* bloom() equal to the bloom of its own logs().
C3_NeverStale == w.some => Fresh(w.val)

\* C3 as amended: a ReceiptWithBloom made by with_bloom or From<Receipt>, and
\* not written to through its public fields since, has bloom() equal to the
\* bloom of its own logs(); one made by new or changed through its fields
\* need not.
C3_FreshWhenConverted == (w.some /\ w.by \in {"with_bloom", "from"}) => Fresh(w.val)

\* a wrapper made by From<Receipt> for a receipt with logs is being queried
C3_Witness ==
    /\ w.some
    /\ w.by = "from"
    /\ w.val.receipt.logs # <<>>
    /\ op = "ReceiptWithBloom::bloom"
    /\ q.val = bloom_slow(w.val.receipt)

\* C4: bloom_cheap() of a wrapper is present and is its logs_bloom, which is
\* also its bloom(); bloom_cheap() of a bare receipt is absent and its bloom()
\* is bloom_slow().
C4_BloomCheap ==
    /\ op = "ReceiptWithBloom::bloom_cheap" =>
          /\ q.val.some
          /\ q.val.val = w.val.logs_bloom
          /\ q.val.val = ReceiptWithBloom_bloom(w.val)
    /\ op = "ReceiptWithBloom::bloom" => q.val = w.val.logs_bloom
    /\ op = "Receipt::bloom_cheap" => ~q.val.some
    /\ op = "Receipt::bloom" => q.val = bloom_slow(r)

\* the cheap bloom of a wrapper whose cache is not the bloom of its logs
C4_Witness ==
    /\ op = "ReceiptWithBloom::bloom_cheap"
    /\ q.val.some
    /\ q.val.val # bloom_slow(w.val.receipt)

Reverse(s) == [i \in 1..Len(s) |-> s[Len(s) + 1 - i]]

\* C7: bloom_slow() of a receipt is the same for its logs in reverse order,
\* is the OR of the blooms of any two parts the logs are split into (for two
\* logs a and b: of [a] and [b]), is the same under every outcome and gas
\* value, and is all-zero without logs.
C7_BloomOrderIndependent ==
    op = "bloom_slow" =>
        /\ q.val = bloom_slow([r EXCEPT !.logs = Reverse(r.logs)])
        /\ \A k \in 0..Len(r.logs) :
              q.val = BitOr(bloom_slow([r EXCEPT !.logs = Take(r.logs, k)]),
                            bloom_slow([r EXCEPT !.logs = Drop(r.logs, k)]))
        /\ \A s \in Outcomes, g \in GasValues : q.val = bloom_slow(MkReceipt(s, g, r.logs))
        /\ r.logs = <<>> => q.val = ZeroBloom

\* two different logs, the second with topics
C7_Witness ==
    /\ op = "bloom_slow"
    /\ Len(r.logs) = 2
    /\ r.logs[1] # r.logs[2]
    /\ r.logs[2].topics # <<>>
    /\ Cardinality(q.val) > BloomBitsPerItem

PrefixKept(before, after) ==
    /\ Len(after) >= Len(before)
    /\ \A i \in 1..Len(before) : after[i] = before[i]

\* C5: a push of v adds exactly one block: len() grows by one, the last block
\* is v (also when v is empty), is_empty() is false, and every block that was
\* there is at its index, unchanged.
C5_PushAppendsOne ==
    [][op' = "push" =>
          /\ len(coll') = len(coll) + 1
          /\ coll'[len(coll')] = arg'.val
          /\ ~is_empty(coll')
          /\ \A i \in 1..len(coll) : coll'[i] = coll[i]]_vars

\* an empty block has been pushed after a block that is not empty
C5_Witness ==
    /\ op = "push"
    /\ arg.val = <<>>
    /\ len(coll) = MaxBlocks
    /\ coll[1] # <<>>

\* C6 as claimed: whatever is done with the collection, len() never decreases
\* and every stored block stays at its index with the same receipts.
C6_AppendOnly == [][PrefixKept(coll, coll')]_vars

\* C6 as amended: the methods Receipts itself defines (push, len, is_empty)
\* never decrease len() and leave every stored block at its index with the
\* same receipts; the Vec methods reached through the derived DerefMut (pop,
\* clear, reverse, index assignment) can remove, reorder and overwrite blocks.
C6_OwnMethodsAppendOnly ==
    [][op' \in {"push", "len", "is_empty"} => PrefixKept(coll, coll')]_vars

\* a push onto a collection that holds a block with two receipts
C6_Witness ==
    /\ op = "push"
    /\ len(coll) = MaxBlocks
    /\ Len(coll[1]) = MaxBlockTxs

Keys(obj) == [i \in 1..Len(obj) |-> obj[i].key]
OutcomeEntries(obj) == EntriesWithKey(obj, "status") \cup EntriesWithKey(obj, "root")

\* C9: the JSON object of a Receipt has exactly one of the keys "status" and
\* "root": "status" with "0x1" or "0x0" for the success flag, "root" with 0x
\* and 64 hex characters for the post-state root; "cumulativeGasUsed" and
\* "logs" follow it; and an object with "root" and no "status" (its
\* cumulativeGasUsed and logs present and well-formed, as in
\* test::deser_pre658) deserializes to the post-state variant with exactly
\* that hash.
C9_JsonOutcomeShape ==
    /\ op = "serialize" =>
          /\ Cardinality(OutcomeEntries(json)) = 1
          /\ r.status.tag = "Eip658" =>
                /\ Keys(json) = <<"status", "cumulativeGasUsed", "logs">>
                /\ json[1].value =
                      JStr(IF r.status.status THEN <<"0", "x", "1">> ELSE <<"0", "x", "0">>)
          /\ r.status.tag = "PostState" =>
                /\ Keys(json) = <<"root", "cumulativeGasUsed", "logs">>
                /\ json[1].value.kind = "string"
                /\ Len(json[1].value.chars) = 66
                /\ SubSeq(json[1].value.chars, 1, 2) = <<"0", "x">>
                /\ \A i \in 3..66 : IsHexDigit(json[1].value.chars[i])
                /\ \A i \in 1..HashLen :
                      HexValue(json[1].value.chars[2 * i + 1]) * 16
                      + HexValue(json[1].value.chars[2 * i + 2]) = r.status.root[i]
    /\ (/\ op = "deserialize"
        /\ Cardinality(EntriesWithKey(json, "root")) = 1
        /\ EntriesWithKey(json, "status") = {}
        /\ \E h \in Hashes : Field(json, "root") = HashToJson(h)
        /\ Cardinality(EntriesWithKey(json, "cumulativeGasUsed")) = 1
        /\ QuantityFromJson(Field(json, "cumulativeGasUsed"), 8 * U128Bytes).ok
        /\ Cardinality(EntriesWithKey(json, "logs")) = 1
        /\ LogsFromJson(Field(json, "logs")).ok) =>
          /\ parsed.val.ok
          /\ parsed.val.val.status.tag = "PostState"
          /\ HashToJson(parsed.val.val.status.root) = Field(json, "root")

\* the object of test::deser_pre658 has been deserialized
C9_Witness ==
    /\ op = "deserialize"
    /\ json = Pre658Json
    /\ parsed.val.ok
    /\ parsed.val.val.status = PostState(T1)

====
